---- MODULE Spec2Model ----
(***************************************************************************)
(* Model of etl.py: a batch job that reads song and log JSON records,      *)
(* derives the star schema (songs, artists, users, time, songplays) and    *)
(* writes each table as parquet, some of them partitioned.                 *)
(*                                                                         *)
(* Representation.                                                         *)
(*  - A dataframe is a sequence of rows; a row is a record (column name -> *)
(*    value).  Sequences keep duplicates, as dataframes do.                *)
(*  - SQL NULL is the string Null; it is used in string columns only.      *)
(*  - An epoch-millisecond timestamp ts is the record [sec, ms] standing   *)
(*    for sec * 1000 + ms with ms in 0..999 (the values of 2018 exceed the *)
(*    integers of the model checker), so x/1000 is sec + ms/1000.          *)
(*  - A formatted date string is the sequence of its numeric fields:       *)
(*    '%Y-%m-%d %H:%M:%S' is <<Y, m, d, H, M, S>>, '%Y-%m-%d' is <<Y,m,d>>.*)
(*  - The 64-bit value of monotonically_increasing_id is the pair          *)
(*    <<upper 31 bits, lower 33 bits>>.                                    *)
(*  - A written table is a sequence of files entries [dir, data]: dir is   *)
(*    the partition directory (partition column -> value), data the row    *)
(*    stored in the file (the remaining columns).                          *)
(***************************************************************************)
EXTENDS Integers, Sequences, FiniteSets, TLC

\* songFiles, logFiles: the JSON records under the two input globs.
\* tz:       the UTC offset (seconds) of the zone the job runs in.
\* pc:       the position of the job in StepOrder; failed: a step has raised.
\* df:       the local df of the routine that is running.
\* song_df:  the song records read again by process_log_data.
\* written:  the tables written so far, by directory name under output_data.
VARIABLES songFiles, logFiles, tz, pc, failed, df, song_df, written

vars == <<songFiles, logFiles, tz, pc, failed, df, song_df, written>>

\* ------------------------------------------------------------------ bounds
MaxSongs == 2
MaxLogs == 2
NumPartitions == 2

\* ------------------------------------------------------------------ helpers
Null == "null"

Range(s) == {s[i] : i \in 1..Len(s)}

SeqsUpTo(S, n) == UNION {[1..k -> S] : k \in 0..n}

RECURSIVE SumTo(_, _)
SumTo(f, n) == IF n = 0 THEN 0 ELSE f[n] + SumTo(f, n - 1)

\* Java integer division (truncates toward zero).
TruncDiv(a, b) == IF a >= 0 THEN a \div b ELSE -((-a) \div b)

\* ------------------------------------------------------------------ inputs
SongRecord(sid, title, aid, yr, dur, aname, aloc) ==
    [song_id |-> sid, title |-> title, artist_id |-> aid, year |-> yr,
     duration |-> dur, artist_name |-> aname, artist_location |-> aloc,
     artist_latitude |-> 35, artist_longitude |-> 139]

SongPool ==
    { SongRecord("S1", "T1", "AR1", 2000, 200, "A", "L1"),
      SongRecord("S2", "T2", "AR1", 0, 300, "A", "L1"),
      SongRecord("S3", "T3", "AR2", 2000, 250, "B", Null) }

LogEvent(page, artist, uid, first, level, session, sec, ms) ==
    [page |-> page, artist |-> artist, userId |-> uid, firstName |-> first,
     lastName |-> "N", gender |-> "F", level |-> level, sessionId |-> session,
     location |-> "X", userAgent |-> "UA", ts |-> [sec |-> sec, ms |-> ms]]

\* 1541903636 is 2018-11-11 02:33:56 UTC; 1541907236 is one hour later.
LogPool ==
    { LogEvent("NextSong", "A", "u1", "F1", "free", 1, 1541903636, 796),
      LogEvent("NextSong", "C", "u1", "F1", "free", 1, 1541903636, 12),
      LogEvent("Home", Null, "u3", "F3", "free", 3, 1541903700, 0),
      LogEvent("NextSong", "B", "u2", "F2", "paid", 2, 1541907236, 999) }

TzOffsets == {-18000, 0, 19800}

\* Epoch seconds on which the time derivation is exercised: the epoch, leap
\* days, year ends and the ISO week-numbering corner cases.
TsSeconds ==
    { 0, 86399, 951782400, 951868800, 1456703999, 1456704000, 1456790400,
      1483228799, 1483228800, 1514764799, 1541903636, 1546214399, 1546214400,
      1546300799, 1546300800, 1609459199, 1609459200, 1609632000, 1609718400,
      1640995199 }

TsPool == {[sec |-> s, ms |-> m] : s \in TsSeconds, m \in {0, 999}}

\* ------------------------------------------------------------------ time
\* datetime.fromtimestamp(x/1000) in the zone with UTC offset zone (seconds):
\* the local calendar fields of the instant; the date is the proleptic
\* Gregorian ordinal (1970-01-01 is 719163) split as CPython's _ord2ymd does.
IsLeapYear(y) == (y % 4 = 0) /\ ((y % 100 # 0) \/ (y % 400 = 0))

DaysInMonth(y, m) ==
    IF m = 2 THEN (IF IsLeapYear(y) THEN 29 ELSE 28)
    ELSE IF m \in {4, 6, 9, 11} THEN 30 ELSE 31

DaysBeforeMonth(y, m) == SumTo([k \in 1..12 |-> DaysInMonth(y, k)], m - 1)

Ord2Ymd(ordinal) ==
    LET n0 == ordinal - 1
        n400 == n0 \div 146097
        r400 == n0 % 146097
        n100 == r400 \div 36524
        r100 == r400 % 36524
        n4 == r100 \div 1461
        r4 == r100 % 1461
        n1 == r4 \div 365
        n == r4 % 365
        year == n400 * 400 + 1 + n100 * 100 + n4 * 4 + n1
        leapyear == (n1 = 3) /\ ((n4 # 24) \/ (n100 = 3))
        m0 == (n + 50) \div 32
        p0 == DaysBeforeMonth(IF leapyear THEN 2000 ELSE 2001, m0)
        month == IF p0 > n THEN m0 - 1 ELSE m0
        preceding == IF p0 > n
                     THEN p0 - DaysInMonth(IF leapyear THEN 2000 ELSE 2001, m0 - 1)
                     ELSE p0
    IN  IF n1 = 4 \/ n100 = 4
        THEN <<year - 1, 12, 31>>
        ELSE <<year, month, n - preceding + 1>>

fromtimestamp(ts, zone) ==
    LET local == ts.sec + zone
        ymd == Ord2Ymd(local \div 86400 + 719163)
        sod == local % 86400
    IN  [year |-> ymd[1], month |-> ymd[2], day |-> ymd[3],
         hour |-> sod \div 3600, minute |-> (sod % 3600) \div 60,
         second |-> sod % 60, microsecond |-> ts.ms * 1000]

\* strftime('%Y-%m-%d %H:%M:%S') and strftime('%Y-%m-%d').
get_timestamp(ts, zone) ==
    LET d == fromtimestamp(ts, zone)
    IN  <<d.year, d.month, d.day, d.hour, d.minute, d.second>>

get_datetime(ts, zone) ==
    LET d == fromtimestamp(ts, zone)
    IN  <<d.year, d.month, d.day>>

\* The engine's date functions on a date string: the string is cast to a
\* timestamp (a date-only string is midnight) and the field extracted.
year(str) == str[1]

month(str) == str[2]

dayofmonth(str) == str[3]

hour(str) == IF Len(str) >= 4 THEN str[4] ELSE 0

\* java.time.LocalDate.toEpochDay
ToEpochDay(y, m, d) ==
    365 * y + (y + 3) \div 4 - (y + 99) \div 100 + (y + 399) \div 400
    + (367 * m - 362) \div 12 + (d - 1)
    - (IF m > 2 THEN (IF IsLeapYear(y) THEN 1 ELSE 2) ELSE 0)
    - 719528

\* Day of week, Monday = 0.
Dow0(y, m, d) == (ToEpochDay(y, m, d) + 3) % 7

dayofweek_mondayfirst(str) == Dow0(str[1], str[2], str[3]) + 1

\* dayofweek: 1 = Sunday ... 7 = Saturday.
dayofweek(str) == ((Dow0(str[1], str[2], str[3]) + 1) % 7) + 1

\* weekofyear: the ISO 8601 week number, as java.time.temporal.IsoFields.
WeekRangeMax(y) ==
    LET jan1 == Dow0(y, 1, 1)
    IN  IF jan1 = 3 \/ (jan1 = 2 /\ IsLeapYear(y)) THEN 53 ELSE 52

weekofyear(str) ==
    LET y == str[1]
        dow0 == Dow0(y, str[2], str[3])
        doy0 == ToEpochDay(y, str[2], str[3]) - ToEpochDay(y, 1, 1)
        doyThu0 == doy0 + (3 - dow0)
        alignedWeek == TruncDiv(doyThu0, 7)
        firstThuDoy0 == doyThu0 - alignedWeek * 7
        fm == firstThuDoy0 - 3
        firstMonDoy0 == IF fm < -3 THEN fm + 7 ELSE fm
        week == (doy0 - firstMonDoy0) \div 7 + 1
    IN  IF doy0 < firstMonDoy0 THEN WeekRangeMax(y - 1)
        ELSE IF week = 53 /\ ~(firstMonDoy0 = -3 \/ (firstMonDoy0 = -2 /\ IsLeapYear(y)))
        THEN 1
        ELSE week

\* ------------------------------------------------------------------ schema
SONG_ATTRIBUTES ==
    << <<"song_id", "song_id">>, <<"title", "title">>,
       <<"artist_id", "artist_id">>, <<"year", "year">>,
       <<"duration", "duration">> >>

ARTIST_ATTRIBUTES ==
    << <<"artist_id", "artist_id">>, <<"artist_name", "name">>,
       <<"artist_location", "location">>, <<"artist_latitude", "latitude">>,
       <<"artist_longitude", "longitude">> >>

USER_ATTRIBUTES ==
    << <<"UserId", "user_id">>, <<"firstName", "first_name">>,
       <<"lastName", "last_name">>, <<"gender", "gender">>,
       <<"level", "level">> >>

SONGPLAYS_ATTRIBUTES_unaliased ==
    << <<"start_time", "start_time">>, <<"userId", "userId">>,
       <<"level", "level">>, <<"song_id", "song_id">>,
       <<"artist_id", "artist_id">>, <<"sessionId", "sessionId">>,
       <<"location", "location">>, <<"userAgent", "userAgent">> >>

SONGPLAYS_ATTRIBUTES ==
    << <<"start_time", "start_time">>, <<"userId", "user_id">>,
       <<"level", "level">>, <<"song_id", "song_id">>,
       <<"artist_id", "artist_id">>, <<"sessionId", "session_id">>,
       <<"location", "location">>, <<"userAgent", "user_agent">> >>

TIME_ATTRIBUTES ==
    << <<"start_time", "start_time">>, <<"hour", "hour">>, <<"day", "day">>,
       <<"week", "week">>, <<"month", "month">>, <<"year", "year">>,
       <<"weekday", "weekday">> >>

\* partitionBy(...) of each write; <<>> is an unpartitioned write.
SongsPartitionBy_yearonly == <<"year">>

SongsPartitionBy == <<"year", "artist_id">>

ArtistsPartitionBy == <<>>

UsersPartitionBy == <<>>

TimePartitionBy == <<"year", "month">>

SongplaysPartitionBy == <<"year", "month">>

\* ------------------------------------------------------------------ dataframes
\* Column names resolve case-insensitively (the engine's default).
Lower(name) ==
    CASE name \in {"UserId", "userId"} -> "userid"
      [] name = "firstName" -> "firstname"
      [] name = "lastName" -> "lastname"
      [] name = "sessionId" -> "sessionid"
      [] name = "userAgent" -> "useragent"
      [] OTHER -> name

HasColumn(name, cols) == \E c \in cols : Lower(c) = Lower(name)

Resolve(name, cols) == CHOOSE c \in cols : Lower(c) = Lower(name)

\* select / selectExpr of one row: attrs is a sequence of <<column, alias>>.
SelectRow(row, attrs) ==
    [a \in {attrs[i][2] : i \in 1..Len(attrs)} |->
        LET i == CHOOSE k \in 1..Len(attrs) : attrs[k][2] = a
        IN  row[Resolve(attrs[i][1], DOMAIN row)]]

select(rows, attrs) == [i \in 1..Len(rows) |-> SelectRow(rows[i], attrs)]

RECURSIVE Dedup(_)
Dedup(rows) ==
    IF rows = <<>> THEN <<>>
    ELSE LET h == Dedup(SubSeq(rows, 1, Len(rows) - 1))
             last == rows[Len(rows)]
         IN  IF \E i \in 1..Len(h) : h[i] = last THEN h ELSE Append(h, last)

distinct_keepall(rows) == rows

distinct(rows) == Dedup(rows)

\* SQL equality: never true when an operand is NULL.
SqlEq(a, b) == a # Null /\ b # Null /\ a = b

filter_none(rows) == rows

\* df.filter(df.page == 'NextSong')
filter(rows) == SelectSeq(rows, LAMBDA e : SqlEq(e.page, "NextSong"))

\* The timestamp, start_time and calendar columns added to the log events.
start_time_datetime(ts, zone) == get_datetime(ts, zone)

start_time(ts, zone) == get_timestamp(ts, zone)

WithTimeColumns(e, zone) ==
    LET timestamp == get_timestamp(e.ts, zone)
    IN  [c \in DOMAIN e \cup {"timestamp", "start_time", "hour", "day", "week",
                              "month", "year", "weekday"} |->
            CASE c = "timestamp" -> timestamp
              [] c = "start_time" -> start_time(e.ts, zone)
              [] c = "hour" -> hour(timestamp)
              [] c = "day" -> dayofmonth(timestamp)
              [] c = "week" -> weekofyear(timestamp)
              [] c = "month" -> month(timestamp)
              [] c = "year" -> year(timestamp)
              [] c = "weekday" -> dayofweek(timestamp)
              [] OTHER -> e[c]]

withTimeColumns(rows, zone) ==
    [i \in 1..Len(rows) |-> WithTimeColumns(rows[i], zone)]

\* df.join(song_df, df.artist == song_df.artist_name, how = 'left'): a joined
\* row keeps both sides (both have a column named year).
SongColumns ==
    {"song_id", "title", "artist_id", "year", "duration", "artist_name",
     "artist_location", "artist_latitude", "artist_longitude"}

NullSongRow == [c \in SongColumns |-> Null]

Matches(l, right) == SelectSeq(right, LAMBDA r : SqlEq(l.artist, r.artist_name))

RECURSIVE JoinFrom(_, _, _, _)
JoinFrom(left, right, i, outer) ==
    IF i > Len(left) THEN <<>>
    ELSE LET m == Matches(left[i], right)
             here == IF m = <<>>
                     THEN (IF outer THEN <<[l |-> left[i], r |-> NullSongRow]>>
                           ELSE <<>>)
                     ELSE [k \in 1..Len(m) |-> [l |-> left[i], r |-> m[k]]]
         IN  here \o JoinFrom(left, right, i + 1, outer)

join_inner(left, right) == JoinFrom(left, right, 1, FALSE)

join(left, right) == JoinFrom(left, right, 1, TRUE)

JoinedColumn(j, name) ==
    IF HasColumn(name, DOMAIN j.l)
    THEN j.l[Resolve(name, DOMAIN j.l)]
    ELSE j.r[Resolve(name, DOMAIN j.r)]

SelectJoined(j, attrs) ==
    [a \in {attrs[i][2] : i \in 1..Len(attrs)} |->
        LET i == CHOOSE k \in 1..Len(attrs) : attrs[k][2] = a
        IN  JoinedColumn(j, attrs[i][1])]

\* monotonically_increasing_id: the partition index in the upper 31 bits and
\* the position of the row within its partition in the lower 33 bits.
monotonically_increasing_id_rowonly(partition, position) == <<0, position>>

monotonically_increasing_id(partition, position) == <<partition, position>>

\* The rows of a dataframe are its partitions one after the other.  The engine
\* chooses where each partition ends: ends[p] is the number of rows in the
\* partitions up to p (partitions may be empty).
Partitionings(n) ==
    {ends \in [1..NumPartitions -> 0..n] :
        /\ ends[NumPartitions] = n
        /\ \A p \in 1..(NumPartitions - 1) : ends[p] <= ends[p + 1]}

PartitionOf(i, ends) == CHOOSE p \in DOMAIN ends :
                            /\ i <= ends[p]
                            /\ \A q \in 1..(p - 1) : ends[q] < i

PositionIn(i, ends) ==
    LET p == PartitionOf(i, ends)
    IN  i - 1 - (IF p = 1 THEN 0 ELSE ends[p - 1])

\* The songplays rows under a partitioning of the joined dataframe.
Songplays(joined, ends) ==
    [i \in 1..Len(joined) |->
        LET base == SelectJoined(joined[i], SONGPLAYS_ATTRIBUTES)
        IN  [c \in DOMAIN base \cup {"songplay_id", "year", "month"} |->
                CASE c = "songplay_id" ->
                        monotonically_increasing_id(PartitionOf(i, ends) - 1,
                                                    PositionIn(i, ends))
                  [] c = "year" -> year(base.start_time)
                  [] c = "month" -> month(base.start_time)
                  [] OTHER -> base[c]]]

\* write.partitionBy(cols).parquet(path): each row goes to the directory named
\* by its values of cols and the file keeps the other columns.
parquet(rows, cols) ==
    [i \in 1..Len(rows) |->
        [dir |-> [k \in 1..Len(cols) |-> [col |-> cols[k], val |-> rows[i][cols[k]]]],
         data |-> [c \in DOMAIN rows[i] \ Range(cols) |-> rows[i][c]]]]

\* ------------------------------------------------------------------ the job
\* The statements of main, process_song_data and process_log_data, in order.
StepOrder_artistsfirst ==
    <<"read_songs", "write_artists", "write_songs", "read_logs", "write_users",
      "write_time", "read_songs_again", "write_songplays">>

StepOrder ==
    <<"read_songs", "write_songs", "write_artists", "read_logs", "write_users",
      "write_time", "read_songs_again", "write_songplays">>

AtStep(name) == ~failed /\ pc <= Len(StepOrder) /\ StepOrder[pc] = name

Write(table, files) == written' = (table :> files) @@ written

TypeInit ==
    /\ pc = 1
    /\ failed = FALSE
    /\ df = <<>>
    /\ song_df = <<>>
    /\ written = <<>>

Init ==
    /\ songFiles \in SeqsUpTo(SongPool, MaxSongs)
    /\ logFiles \in SeqsUpTo(LogPool, MaxLogs)
    /\ tz = 0
    /\ TypeInit

\* Two log events in each second of TsPool, in each zone, for the time
\* derivation.
InitTime ==
    /\ songFiles \in {<<s>> : s \in SongPool}
    /\ logFiles \in {<<[e EXCEPT !.ts = t], [e EXCEPT !.ts = [sec |-> t.sec, ms |-> 500]]>> :
                        e \in {x \in LogPool : x.artist = "A"}, t \in TsPool}
    /\ tz \in TzOffsets
    /\ TypeInit

\* spark.read.json(song_data): needs at least one file under the path.
ReadSongData ==
    /\ AtStep("read_songs")
    /\ songFiles # <<>>
    /\ df' = songFiles
    /\ pc' = pc + 1
    /\ UNCHANGED <<songFiles, logFiles, tz, failed, song_df, written>>

WriteSongs ==
    /\ AtStep("write_songs")
    /\ Write("songs", parquet(distinct(select(df, SONG_ATTRIBUTES)), SongsPartitionBy))
    /\ pc' = pc + 1
    /\ UNCHANGED <<songFiles, logFiles, tz, failed, df, song_df>>

WriteArtists ==
    /\ AtStep("write_artists")
    /\ Write("artists", parquet(distinct(select(df, ARTIST_ATTRIBUTES)), ArtistsPartitionBy))
    /\ pc' = pc + 1
    /\ UNCHANGED <<songFiles, logFiles, tz, failed, df, song_df>>

\* spark.read.json(log_data) and the NextSong filter.
ReadLogData ==
    /\ AtStep("read_logs")
    /\ logFiles # <<>>
    /\ df' = filter(logFiles)
    /\ pc' = pc + 1
    /\ UNCHANGED <<songFiles, logFiles, tz, failed, song_df, written>>

WriteUsers ==
    /\ AtStep("write_users")
    /\ Write("users", parquet(distinct(select(df, USER_ATTRIBUTES)), UsersPartitionBy))
    /\ pc' = pc + 1
    /\ UNCHANGED <<songFiles, logFiles, tz, failed, df, song_df>>

WriteTime ==
    /\ AtStep("write_time")
    /\ df' = withTimeColumns(df, tz)
    /\ Write("time", parquet(distinct(select(df', TIME_ATTRIBUTES)), TimePartitionBy))
    /\ pc' = pc + 1
    /\ UNCHANGED <<songFiles, logFiles, tz, failed, song_df>>

ReadSongDataAgain ==
    /\ AtStep("read_songs_again")
    /\ songFiles # <<>>
    /\ song_df' = songFiles
    /\ pc' = pc + 1
    /\ UNCHANGED <<songFiles, logFiles, tz, failed, df, written>>

WriteSongplays ==
    /\ AtStep("write_songplays")
    /\ LET joined == join(df, song_df)
       IN  \E ends \in Partitionings(Len(joined)) :
               Write("songplays", parquet(Songplays(joined, ends), SongplaysPartitionBy))
    /\ pc' = pc + 1
    /\ UNCHANGED <<songFiles, logFiles, tz, failed, df, song_df>>

\* Any read or write may raise; nothing catches it, so the job ends there.
EngineFailure ==
    /\ ~failed
    /\ pc <= Len(StepOrder)
    /\ failed' = TRUE
    /\ UNCHANGED <<songFiles, logFiles, tz, pc, df, song_df, written>>

Next ==
    \/ ReadSongData
    \/ WriteSongs
    \/ WriteArtists
    \/ ReadLogData
    \/ WriteUsers
    \/ WriteTime
    \/ ReadSongDataAgain
    \/ WriteSongplays
    \/ EngineFailure

Spec == Init /\ [][Next]_vars

SpecTime == InitTime /\ [][Next]_vars

\* ------------------------------------------------------------------ properties
\* The indices of the log events whose page is "NextSong".
Qualifying == {i \in 1..Len(logFiles) : logFiles[i].page = "NextSong"}

IsWritten(t) == t \in DOMAIN written

Done == pc = Len(StepOrder) + 1

\* The columns of a written row: those of the file and those of its directory.
ColumnsOf(entry) ==
    DOMAIN entry.data \cup {entry.dir[k].col : k \in 1..Len(entry.dir)}

\* A written row as a reader sees it.
RowOf(entry) ==
    [c \in ColumnsOf(entry) |->
        IF c \in DOMAIN entry.data THEN entry.data[c]
        ELSE LET k == CHOOSE k \in 1..Len(entry.dir) : entry.dir[k].col = c
             IN  entry.dir[k].val]

\* C1: the songplays table has exactly as many rows as there are log events
\* whose page is "NextSong", whatever the number of song records that carry the
\* event's artist as artist_name.
C1_FactRowCount ==
    IsWritten("songplays") => Len(written["songplays"]) = Cardinality(Qualifying)

\* C2: no written dimension table (songs, artists, users, time) holds two rows
\* that agree on every column.
C2_NoDuplicateDimensionRows ==
    \A t \in {"songs", "artists", "users", "time"} \cap DOMAIN written :
        \A i, j \in 1..Len(written[t]) :
            i # j => RowOf(written[t][i]) # RowOf(written[t][j])

C2_Witness ==
    /\ Done
    /\ Len(written["songs"]) < Len(songFiles)
    /\ Len(written["artists"]) < Len(songFiles)
    /\ Len(written["users"]) < Cardinality(Qualifying)
    /\ Len(written["time"]) < Cardinality(Qualifying)

\* C3: every row of every written table has exactly the columns declared for its
\* table, each of them once (in the file or in the directory, not both).
DeclaredColumns ==
    [songs |-> {"song_id", "title", "artist_id", "year", "duration"},
     artists |-> {"artist_id", "name", "location", "latitude", "longitude"},
     users |-> {"user_id", "first_name", "last_name", "gender", "level"},
     time |-> {"start_time", "hour", "day", "week", "month", "year", "weekday"},
     songplays |-> {"songplay_id", "start_time", "user_id", "level", "song_id",
                    "artist_id", "session_id", "location", "user_agent", "year",
                    "month"}]

C3_DeclaredColumnSets ==
    \A t \in DOMAIN written :
        \A i \in 1..Len(written[t]) :
            LET entry == written[t][i]
                dircols == {entry.dir[k].col : k \in 1..Len(entry.dir)}
            IN  /\ ColumnsOf(entry) = DeclaredColumns[t]
                /\ dircols \cap DOMAIN entry.data = {}
                /\ Cardinality(dircols) = Len(entry.dir)

C3_Witness ==
    /\ Done
    /\ \A t \in DOMAIN DeclaredColumns : IsWritten(t) /\ written[t] # <<>>

\* C4: each time row carries the hour, day of month, ISO week of year, month,
\* year and day of week (1 = Sunday) of the instant ts of a NextSong event, read
\* in the job's zone, with start_time that instant cut to whole seconds; every
\* NextSong event has its row, and events of the same second share one row.
MonthLengths == <<31, 28, 31, 30, 31, 30, 31, 31, 30, 31, 30, 31>>

LeapDay(y, m) == IF m = 2 /\ y % 4 = 0 /\ (y % 100 # 0 \/ y % 400 = 0) THEN 1 ELSE 0

\* Days from 1970-01-01 to the first of January of year y.
Jan1(y) ==
    (y - 1970) * 365 + ((y - 1) \div 4 - (y - 1) \div 100 + (y - 1) \div 400) - 477

IsTimeRowOf(r, local) ==
    LET days == local \div 86400
        sod == local % 86400
        thu == days - ((days + 3) % 7) + 3
    IN  /\ r.month \in 1..12
        /\ r.day \in 1..(MonthLengths[r.month] + LeapDay(r.year, r.month))
        /\ Jan1(r.year)
           + SumTo([m \in 1..12 |-> MonthLengths[m] + LeapDay(r.year, m)], r.month - 1)
           + (r.day - 1) = days
        /\ r.hour = sod \div 3600
        /\ r.weekday = ((days + 4) % 7) + 1
        /\ \E y \in {r.year - 1, r.year, r.year + 1} :
              /\ Jan1(y) <= thu
              /\ thu < Jan1(y + 1)
              /\ r.week = (thu - Jan1(y)) \div 7 + 1
        /\ r.start_time = <<r.year, r.month, r.day, r.hour, (sod % 3600) \div 60, sod % 60>>

C4_TimeFieldsFromTimestamp ==
    IsWritten("time") =>
        LET rows == [i \in 1..Len(written["time"]) |-> RowOf(written["time"][i])]
        IN  /\ \A i \in 1..Len(rows) :
                  \E e \in Qualifying : IsTimeRowOf(rows[i], logFiles[e].ts.sec + tz)
            /\ \A e \in Qualifying :
                  \E i \in 1..Len(rows) : IsTimeRowOf(rows[i], logFiles[e].ts.sec + tz)
            /\ Len(rows) = Cardinality({logFiles[e].ts.sec : e \in Qualifying})

\* A date whose ISO week belongs to another year than the date, in a zone where
\* the local date differs from the UTC date, and two events of one second.
C4_Witness ==
    /\ IsWritten("time")
    /\ tz # 0
    /\ Cardinality(Qualifying) = 2
    /\ \E i \in 1..Len(written["time"]) :
          LET r == RowOf(written["time"][i])
          IN  /\ r.month = 12 /\ r.week = 1
              /\ r.day # Ord2Ymd(logFiles[1].ts.sec \div 86400 + 719163)[3]

\* C5: songs is partitioned by (year, artist_id), time and songplays by
\* (year, month), artists and users are unpartitioned, and each written row sits
\* in the directory that carries its own values of the partition columns.
Dir2(c1, v1, c2, v2) == <<[col |-> c1, val |-> v1], [col |-> c2, val |-> v2]>>

C5_PartitionDirectories ==
    /\ IsWritten("songs") =>
          \A i \in 1..Len(written["songs"]) :
              \E k \in 1..Len(songFiles) :
                  /\ written["songs"][i].dir
                        = Dir2("year", songFiles[k].year, "artist_id", songFiles[k].artist_id)
                  /\ written["songs"][i].data
                        = [song_id |-> songFiles[k].song_id, title |-> songFiles[k].title,
                           duration |-> songFiles[k].duration]
    /\ \A t \in {"artists", "users"} \cap DOMAIN written :
          \A i \in 1..Len(written[t]) : written[t][i].dir = <<>>
    /\ IsWritten("time") =>
          \A i \in 1..Len(written["time"]) :
              \E k \in 1..Len(df) :
                  /\ written["time"][i].dir = Dir2("year", df[k].year, "month", df[k].month)
                  /\ written["time"][i].data
                        = [start_time |-> df[k].start_time, hour |-> df[k].hour,
                           day |-> df[k].day, week |-> df[k].week,
                           weekday |-> df[k].weekday]
    /\ IsWritten("songplays") =>
          \A i \in 1..Len(written["songplays"]) :
              \E k \in 1..Len(df) :
                  /\ written["songplays"][i].dir
                        = Dir2("year", df[k].start_time[1], "month", df[k].start_time[2])
                  /\ written["songplays"][i].data.start_time = df[k].start_time
                  /\ written["songplays"][i].data.session_id = df[k].sessionId

C5_Witness ==
    /\ Done
    /\ \A t \in DOMAIN DeclaredColumns : written[t] # <<>>
    /\ \E i, j \in 1..Len(written["songs"]) :
          written["songs"][i].dir # written["songs"][j].dir

\* C6: every row of users, time and songplays comes from a log event whose page
\* is "NextSong", and a user seen only in other events has no users row.
C6_OnlyNextSongEvents ==
    /\ IsWritten("users") =>
          /\ \A i \in 1..Len(written["users"]) :
                \E e \in Qualifying :
                    RowOf(written["users"][i])
                        = [user_id |-> logFiles[e].userId,
                           first_name |-> logFiles[e].firstName,
                           last_name |-> logFiles[e].lastName,
                           gender |-> logFiles[e].gender,
                           level |-> logFiles[e].level]
          /\ \A k \in 1..Len(logFiles) :
                (\A e \in Qualifying : logFiles[e].userId # logFiles[k].userId)
                    => \A i \in 1..Len(written["users"]) :
                          written["users"][i].data.user_id # logFiles[k].userId
    /\ IsWritten("time") =>
          \A i \in 1..Len(written["time"]) :
              \E e \in Qualifying :
                  written["time"][i].data.start_time = get_timestamp(logFiles[e].ts, tz)
    /\ IsWritten("songplays") =>
          \A i \in 1..Len(written["songplays"]) :
              \E e \in Qualifying :
                  LET r == written["songplays"][i].data
                  IN  /\ r.start_time = get_timestamp(logFiles[e].ts, tz)
                      /\ r.user_id = logFiles[e].userId
                      /\ r.level = logFiles[e].level
                      /\ r.session_id = logFiles[e].sessionId
                      /\ r.location = logFiles[e].location
                      /\ r.user_agent = logFiles[e].userAgent

C6_Witness ==
    /\ Done
    /\ Qualifying # {}
    /\ \E k \in 1..Len(logFiles) : k \notin Qualifying
    /\ written["users"] # <<>>

\* C7: songplays is the left join of the NextSong events with the song records
\* on artist = artist_name: an event that matches no song record has a row with
\* its log columns and null song_id and artist_id, and the non-null song_id and
\* artist_id of a row are those of a song record whose artist_name is the
\* event's artist.
LogColumnsOf(r, e) ==
    /\ r.start_time = get_timestamp(e.ts, tz)
    /\ r.user_id = e.userId
    /\ r.level = e.level
    /\ r.session_id = e.sessionId
    /\ r.location = e.location
    /\ r.user_agent = e.userAgent

Unmatched(e) == \A k \in 1..Len(songFiles) : songFiles[k].artist_name # e.artist

C7_LeftJoinOnArtist ==
    IsWritten("songplays") =>
        /\ \A e \in Qualifying :
              Unmatched(logFiles[e]) =>
                  \E i \in 1..Len(written["songplays"]) :
                      LET r == written["songplays"][i].data
                      IN  /\ LogColumnsOf(r, logFiles[e])
                          /\ r.song_id = Null
                          /\ r.artist_id = Null
        /\ \A i \in 1..Len(written["songplays"]) :
              LET r == written["songplays"][i].data
              IN  \E e \in Qualifying :
                      /\ LogColumnsOf(r, logFiles[e])
                      /\ \/ r.song_id = Null /\ r.artist_id = Null
                         \/ \E k \in 1..Len(songFiles) :
                               /\ songFiles[k].artist_name = logFiles[e].artist
                               /\ r.song_id = songFiles[k].song_id
                               /\ r.artist_id = songFiles[k].artist_id

C7_Witness ==
    /\ IsWritten("songplays")
    /\ \E i, j \in 1..Len(written["songplays"]) :
          /\ written["songplays"][i].data.song_id = Null
          /\ written["songplays"][j].data.song_id # Null

\* C8: the steps run in the order read songs, write songs, write artists, read
\* logs, write users, write time, read songs, write songplays; the tables
\* written so far are a prefix of songs, artists, users, time, songplays; a
\* written table is never changed or removed; after a failure nothing happens.
TableOrder == <<"songs", "artists", "users", "time", "songplays">>

TablesBefore == <<0, 0, 1, 2, 2, 3, 4, 4, 5>>

C8_StateOk ==
    /\ pc \in 1..9
    /\ DOMAIN written = {TableOrder[k] : k \in 1..TablesBefore[pc]}
    /\ pc \in 2..4 => df = songFiles
    /\ pc >= 5 => Len(df) = Cardinality(Qualifying)
    /\ song_df = IF pc >= 8 THEN songFiles ELSE <<>>

C8_StepOk ==
    /\ ~failed
    /\ \/ pc' = pc + 1 /\ ~failed'
       \/ pc' = pc /\ failed' /\ written' = written
    /\ \A t \in DOMAIN written : t \in DOMAIN written' /\ written'[t] = written[t]

C8_SequentialNoRecovery == [](C8_StateOk) /\ [][C8_StepOk]_vars

C8_Witness ==
    /\ failed
    /\ pc = 6
    /\ DOMAIN written = {"songs", "artists", "users"}
    /\ written["users"] # <<>>

\* C9: no two rows of the written songplays table carry the same songplay_id.
C9_UniqueSongplayId ==
    IsWritten("songplays") =>
        \A i, j \in 1..Len(written["songplays"]) :
            i # j => written["songplays"][i].data.songplay_id
                        # written["songplays"][j].data.songplay_id

\* Two rows that agree on every other column, in different partitions.
C9_Witness ==
    /\ IsWritten("songplays")
    /\ \E i, j \in 1..Len(written["songplays"]) :
          LET a == written["songplays"][i]
              b == written["songplays"][j]
          IN  /\ i # j
              /\ a.dir = b.dir
              /\ \A c \in DOMAIN a.data \ {"songplay_id"} : a.data[c] = b.data[c]
              /\ a.data.songplay_id[1] # b.data.songplay_id[1]

\* C10: for every songplays row there is exactly one time row with the same
\* start_time, and it lies in the directory of the same year and month.
C10_FactRowsHaveOneTimeRow ==
    IsWritten("songplays") /\ IsWritten("time") =>
        \A i \in 1..Len(written["songplays"]) :
            LET sp == written["songplays"][i]
                same == {k \in 1..Len(written["time"]) :
                            written["time"][k].data.start_time = sp.data.start_time}
            IN  /\ Cardinality(same) = 1
                /\ \A k \in same : written["time"][k].dir = sp.dir

\* Several plays on one day at different times, two of them in one second.
C10_Witness ==
    /\ IsWritten("songplays")
    /\ Len(written["time"]) >= 2
    /\ Len(written["songplays"]) > Len(written["time"])

====
